---- MODULE Spec2Model ----
(***************************************************************************)
(* Model of hpp-fcl's CollisionGeometry / CollisionObject data model       *)
(* (include/hpp/fcl/collision_object.h) and of the distance query facade   *)
(* (include/hpp/fcl/distance.h).                                           *)
(*                                                                         *)
(* Scalars (FCL_REAL) are integers standing for doubles that the           *)
(* arithmetic used here represents exactly.  Rotation matrices are in      *)
(* fixed point: the entry One stands for 1.0 and Prec for the default      *)
(* precision of Eigen's approximate comparisons.                           *)
(***************************************************************************)
EXTENDS Integers, Sequences, FiniteSets, TLC

VARIABLES geoms,    \* the CollisionGeometry instances, by identity
          objs,     \* the CollisionObject instances
          last,     \* the operation that ran last: its inputs, calls and outcome
          gcopy,    \* the CollisionGeometry built last by the copy constructor
          query,    \* the isOccupied()/isFree() answers returned last
          facade,   \* the ComputeDistance instance
          request,  \* the DistanceRequest the caller passes
          result,   \* the DistanceResult the caller passes
          dcall     \* the distance call that ran last: inputs, events, return

vars == <<geoms, objs, last, gcopy, query, facade, request, result, dcall>>

objVars  == <<geoms, objs, last>>
geomVars == <<gcopy, query>>
distVars == <<facade, request, result, dcall>>

(***************************************************************************)
(* Bounds of the model.                                                    *)
(***************************************************************************)
MaxCoord == 1       \* translations have coordinates built from 0..MaxCoord
MaxDensity == 2     \* cost density and thresholds range over 0..MaxDensity
MaxGuess == 1       \* warm-start guesses range over -MaxGuess..MaxGuess

(***************************************************************************)
(* Scalars, vectors, matrices.                                             *)
(***************************************************************************)
\* (std::numeric_limits<FCL_REAL>::max)()
FMax == 10000
\* fixed-point 1.0 of a matrix entry
One == 100
\* NumTraits<double>::dummy_precision(), in units of 1/One
Prec == 1

Abs(x) == IF x < 0 THEN -x ELSE x

\* double addition: the sentinel magnitude absorbs a bounded addend
FAdd(a, b) ==
  IF Abs(a) >= FMax /\ Abs(b) < FMax THEN a
  ELSE IF Abs(b) >= FMax /\ Abs(a) < FMax THEN b
  ELSE a + b

\* Vec3f::Constant(v)
Vec3Constant(v) == <<v, v, v>>

VAdd(a, b) == <<FAdd(a[1], b[1]), FAdd(a[2], b[2]), FAdd(a[3], b[3])>>
VSub(a, b) == <<FAdd(a[1], -b[1]), FAdd(a[2], -b[2]), FAdd(a[3], -b[3])>>

\* product of a fixed-point matrix entry and a scalar
FMul(r, c) == (r * c) \div One

\* Matrix3f * Vec3f
MatVec(R, v) ==
  <<FAdd(FAdd(FMul(R[1][1], v[1]), FMul(R[1][2], v[2])), FMul(R[1][3], v[3])),
    FAdd(FAdd(FMul(R[2][1], v[1]), FMul(R[2][2], v[2])), FMul(R[2][3], v[3])),
    FAdd(FAdd(FMul(R[3][1], v[1]), FMul(R[3][2], v[2])), FMul(R[3][3], v[3]))>>

Identity == << <<One, 0, 0>>, <<0, One, 0>>, <<0, 0, One>> >>

\* a rotation by a quarter turn about z
RotZ90 == << <<0, -One, 0>>, <<One, 0, 0>>, <<0, 0, One>> >>

\* the identity up to an error within the default precision
NearIdentity == << <<One, Prec, 0>>, <<0, One, 0>>, <<0, 0, One>> >>

\* a matrix further from the identity than the default precision
OffIdentity == << <<One, 0, 0>>, <<0, One, 0>>, <<2 * Prec, 0, One>> >>

Rotations == {Identity, RotZ90, NearIdentity, OffIdentity}

Translations == {<<x, -x, 2 * x>> : x \in 0..MaxCoord}

\* MatrixBase::isIdentity(prec): every diagonal entry isApprox 1, every other
\* entry isMuchSmallerThan 1
isIdentity(R) ==
  \A i \in 1..3 : \A j \in 1..3 :
    IF i = j
    THEN Abs(R[i][j] - One) * One <= (IF Abs(R[i][j]) < One THEN Abs(R[i][j]) ELSE One) * Prec
    ELSE Abs(R[i][j]) * One <= One * Prec

(***************************************************************************)
(* AABB and Transform3f.                                                   *)
(***************************************************************************)
\* AABB::AABB(): an empty box
DefaultAABB == [min_ |-> Vec3Constant(FMax), max_ |-> Vec3Constant(-FMax)]

\* translate(const AABB&, const Vec3f&)
translate(aabb, t) == [min_ |-> VAdd(aabb.min_, t), max_ |-> VAdd(aabb.max_, t)]

\* Transform3f::Transform3f(): the identity transform
DefaultTransform == [R |-> Identity, T |-> Vec3Constant(0)]

\* Transform3f::transform(v) = R * v + T
transform(t, v) == VAdd(MatVec(t.R, v), t.T)

Transforms == [R : Rotations, T : Translations]

(***************************************************************************)
(* CollisionGeometry.                                                      *)
(***************************************************************************)
Null == 0
GeomIds == {1, 2}
Handles == {"h0", "h1"}

\* The shape parameters of the two concrete geometries, given as the local
\* bound their computeLocalAABB() override derives from them.
Shape(g) ==
  IF g = 1
  THEN [node_type |-> "GEOM_SPHERE", lo |-> <<-2, -2, -2>>, hi |-> <<2, 2, 2>>,
        center |-> <<0, 0, 0>>, radius |-> 2]
  ELSE [node_type |-> "GEOM_BOX", lo |-> <<0, -1, 1>>, hi |-> <<2, 3, 4>>,
        center |-> <<1, 1, 2>>, radius |-> 3]

\* CollisionGeometry::CollisionGeometry(); user_data is left uninitialised
NewGeometry(g, h) ==
  [id |-> g,
   aabb_center |-> Vec3Constant(FMax),
   aabb_radius |-> -1,
   aabb_local |-> DefaultAABB,
   user_data |-> h,
   cost_density |-> 1,
   threshold_occupied |-> 1,
   threshold_free |-> 0]

\* CollisionGeometry::CollisionGeometry(const CollisionGeometry&): aabb_local
\* and user_data are not in the initialiser list
CopyGeometry(other, h) ==
  [id |-> other.id,
   aabb_center |-> other.aabb_center,
   aabb_radius |-> other.aabb_radius,
   aabb_local |-> DefaultAABB,
   user_data |-> h,
   cost_density |-> other.cost_density,
   threshold_occupied |-> other.threshold_occupied,
   threshold_free |-> other.threshold_free]

\* CollisionGeometry::operator==
GeomEq(a, b) ==
  /\ a.cost_density = b.cost_density
  /\ a.threshold_occupied = b.threshold_occupied
  /\ a.threshold_free = b.threshold_free
  /\ a.aabb_center = b.aabb_center
  /\ a.aabb_radius = b.aabb_radius
  /\ a.aabb_local = b.aabb_local

\* CollisionGeometry::isOccupied
isOccupiedMut(g) == g.cost_density > g.threshold_occupied
isOccupied(g) == g.cost_density >= g.threshold_occupied

\* CollisionGeometry::isFree
isFree(g) == g.cost_density <= g.threshold_free

\* computeLocalAABB() of the concrete geometry: sets the local sphere and
\* the local box from the shape parameters
computeLocalAABB(g) ==
  [g EXCEPT !.aabb_center = Shape(g.id).center,
            !.aabb_radius = Shape(g.id).radius,
            !.aabb_local = [min_ |-> Shape(g.id).lo, max_ |-> Shape(g.id).hi]]

(***************************************************************************)
(* DistanceRequest, DistanceResult, the dispatch table and the narrow      *)
(* phase.                                                                  *)
(***************************************************************************)
\* DistanceRequest(): no warm start asked for, a zero guess
NewRequest == [enable_cached_gjk_guess |-> FALSE, cached_gjk_guess |-> 0]

\* DistanceResult(): the largest distance, no geometry, no nearest points
NewResult == [min_distance |-> FMax, o1 |-> Null, o2 |-> Null,
              nearest_points |-> <<Vec3Constant(0), Vec3Constant(0)>>,
              cached_gjk_guess |-> 0]

\* QueryRequest::updateGuess: takes over the result's guess if the request
\* asks for cached guesses
updateGuess(req, res) ==
  IF req.enable_cached_gjk_guess
  THEN [req EXCEPT !.cached_gjk_guess = res.cached_gjk_guess]
  ELSE req

\* getNodeType() of the concrete geometry
getNodeType(g) == Shape(g).node_type

\* the ordered pairs of node types that have a routine registered
Registered ==
  {<<"GEOM_SPHERE", "GEOM_SPHERE">>, <<"GEOM_BOX", "GEOM_BOX">>,
   <<"GEOM_SPHERE", "GEOM_BOX">>}

\* resolution of a pair of node types: the direct entry, else the mirrored
\* entry with the swap flag, else none
Resolve(k1, k2) ==
  IF <<k1, k2>> \in Registered THEN [func |-> <<k1, k2>>, swap_geoms |-> FALSE]
  ELSE IF <<k2, k1>> \in Registered THEN [func |-> <<k2, k1>>, swap_geoms |-> TRUE]
  ELSE [func |-> <<>>, swap_geoms |-> FALSE]

Clamp(x, lo, hi) == IF x < lo THEN lo ELSE IF x > hi THEN hi ELSE x

Max(a, b) == IF a > b THEN a ELSE b

\* the extent along each axis of geometry g read as a shape of kind k
Extent(k, g) ==
  IF k = "GEOM_SPHERE" THEN Shape(g).radius
  ELSE (Shape(g).hi[1] - Shape(g).lo[1]) \div 2

\* the narrow-phase routine registered for func, on (o1, tf1, o2, tf2): the
\* distance returned and the result filled
Routine(func, o1, tf1, o2, tf2, req) ==
  LET p1 == transform(tf1, Shape(o1).center)
      p2 == transform(tf2, Shape(o2).center)
      gap == Max(Max(Abs(p1[1] - p2[1]), Abs(p1[2] - p2[2])), Abs(p1[3] - p2[3]))
             - Extent(func[1], o1) - Extent(func[2], o2)
      d == Max(gap, 0)
  IN [ret |-> d,
      result |-> [min_distance |-> d, o1 |-> o1, o2 |-> o2,
                  nearest_points |-> <<p1, p2>>,
                  cached_gjk_guess |-> Clamp(p2[1] - p1[1], -MaxGuess, MaxGuess)],
      events |-> << <<"narrow", req.cached_gjk_guess>> >>,
      outcome |-> "ok"]

\* a resolved routine run on (o1, tf1, o2, tf2): with the swap flag the
\* arguments are reversed and the result is swapped back
Run(r, o1, tf1, o2, tf2, req) ==
  IF r.func = <<>>
  THEN [ret |-> FMax, result |-> NewResult, events |-> <<>>,
        outcome |-> "UnsupportedShapePair"]
  ELSE IF r.swap_geoms
  THEN LET c == Routine(r.func, o2, tf2, o1, tf1, req)
       IN [c EXCEPT !.result.o1 = o1, !.result.o2 = o2,
                    !.result.nearest_points =
                       <<c.result.nearest_points[2], c.result.nearest_points[1]>>]
  ELSE Routine(r.func, o1, tf1, o2, tf2, req)

\* distance(o1, tf1, o2, tf2, const request, result): resolves the pair on
\* every call
distance(o1, tf1, o2, tf2, req) ==
  Run(Resolve(getNodeType(o1), getNodeType(o2)), o1, tf1, o2, tf2, req)

\* ComputeDistance::run: the routine and swap flag resolved at construction
runMutNoSwap(f, tf1, tf2, req) ==
  Run([func |-> f.func, swap_geoms |-> FALSE], f.o1, tf1, f.o2, tf2, req)
run(f, tf1, tf2, req) ==
  Run([func |-> f.func, swap_geoms |-> f.swap_geoms], f.o1, tf1, f.o2, tf2, req)

(***************************************************************************)
(* CollisionObject.                                                        *)
(***************************************************************************)
ObjIds == {1, 2}

\* a CollisionObject that is not constructed yet
NoObject == [alive |-> FALSE, cgeom |-> Null, t |-> DefaultTransform,
             aabb |-> DefaultAABB]

\* CollisionObject::computeAABB, as the bound it stores in aabb
computeAABBMut(o, gs) ==
  LET center == transform(o.t, gs[o.cgeom].aabb_center)
      delta == Vec3Constant(gs[o.cgeom].aabb_radius)
  IN [min_ |-> VSub(center, delta), max_ |-> VAdd(center, delta)]
computeAABB(o, gs) ==
  IF isIdentity(o.t.R)
  THEN translate(gs[o.cgeom].aabb_local, o.t.T)
  ELSE LET center == transform(o.t, gs[o.cgeom].aabb_center)
           delta == Vec3Constant(gs[o.cgeom].aabb_radius)
       IN [min_ |-> VSub(center, delta), max_ |-> VAdd(center, delta)]

\* CollisionObject::init: the object, the geometries and the calls made
initMutSkip(o, gs, compute_local_aabb) ==
  IF o.cgeom # Null
  THEN LET gs1 == IF compute_local_aabb
                  THEN [gs EXCEPT ![o.cgeom] = computeLocalAABB(gs[o.cgeom])]
                  ELSE gs
       IN [obj |-> IF compute_local_aabb
                   THEN [o EXCEPT !.aabb = computeAABB(o, gs1)] ELSE o,
           geoms |-> gs1,
           calls |-> IF compute_local_aabb
                     THEN <<"computeLocalAABB", "computeAABB">> ELSE <<>>]
  ELSE [obj |-> o, geoms |-> gs, calls |-> <<>>]
init(o, gs, compute_local_aabb) ==
  IF o.cgeom # Null
  THEN LET gs1 == IF compute_local_aabb
                  THEN [gs EXCEPT ![o.cgeom] = computeLocalAABB(gs[o.cgeom])]
                  ELSE gs
       IN [obj |-> [o EXCEPT !.aabb = computeAABB(o, gs1)],
           geoms |-> gs1,
           calls |-> (IF compute_local_aabb THEN <<"computeLocalAABB">> ELSE <<>>)
                      \o <<"computeAABB">>]
  ELSE [obj |-> o, geoms |-> gs, calls |-> <<>>]

\* the record of an operation: its name, the object it ran on, its
\* arguments, the calls it made in order, and how it ended
Op(name, o, g, tf, flag, calls, outcome) ==
  [op |-> name, obj |-> o, geom |-> g, tf |-> tf, flag |-> flag,
   calls |-> calls, outcome |-> outcome]

\* an argument the operation does not take
NoArg == <<>>
NoTf == [R |-> NoArg, T |-> NoArg]
NoOp == Op("none", 0, Null, NoTf, FALSE, <<>>, "ok")

\* the program runs until an operation ends it
Running == last.outcome = "ok"

\* CollisionObject(cgeom_, compute_local_aabb)
Construct1(o, g, flag) ==
  /\ Running /\ ~objs[o].alive
  /\ LET r == init([alive |-> TRUE, cgeom |-> g, t |-> DefaultTransform,
                    aabb |-> DefaultAABB], geoms, flag)
     IN /\ objs' = [objs EXCEPT ![o] = r.obj]
        /\ geoms' = r.geoms
        /\ last' = Op("CollisionObject", o, g, NoTf, flag, r.calls, "ok")
  /\ UNCHANGED <<geomVars, distVars>>

\* CollisionObject(cgeom_, tf, compute_local_aabb)
Construct2(o, g, tf, flag) ==
  /\ Running /\ ~objs[o].alive
  /\ LET r == init([alive |-> TRUE, cgeom |-> g, t |-> tf,
                    aabb |-> DefaultAABB], geoms, flag)
     IN /\ objs' = [objs EXCEPT ![o] = r.obj]
        /\ geoms' = r.geoms
        /\ last' = Op("CollisionObject", o, g, tf, flag, r.calls, "ok")
  /\ UNCHANGED <<geomVars, distVars>>

\* CollisionObject(cgeom_, R, T, compute_local_aabb)
Construct3(o, g, R, T, flag) ==
  /\ Running /\ ~objs[o].alive
  /\ LET r == init([alive |-> TRUE, cgeom |-> g, t |-> [R |-> R, T |-> T],
                    aabb |-> DefaultAABB], geoms, flag)
     IN /\ objs' = [objs EXCEPT ![o] = r.obj]
        /\ geoms' = r.geoms
        /\ last' = Op("CollisionObject", o, g, [R |-> R, T |-> T], flag,
                      r.calls, "ok")
  /\ UNCHANGED <<geomVars, distVars>>

\* CollisionObject::computeAABB() on an object that holds a geometry
ComputeAABBMutShared(o) ==
  /\ Running /\ objs[o].alive /\ objs[o].cgeom # Null
  /\ objs' = [p \in ObjIds |->
               IF objs[p].alive /\ objs[p].cgeom = objs[o].cgeom
               THEN [objs[p] EXCEPT !.aabb = computeAABB(objs[o], geoms)]
               ELSE objs[p]]
  /\ last' = Op("computeAABB", o, Null, NoTf, FALSE, <<>>, "ok")
  /\ UNCHANGED <<geoms, geomVars, distVars>>
ComputeAABB(o) ==
  /\ Running /\ objs[o].alive /\ objs[o].cgeom # Null
  /\ objs' = [objs EXCEPT ![o].aabb = computeAABB(objs[o], geoms)]
  /\ last' = Op("computeAABB", o, Null, NoTf, FALSE, <<>>, "ok")
  /\ UNCHANGED <<geoms, geomVars, distVars>>

\* CollisionObject::computeAABB() on an object whose cgeom is null: the
\* dereference of cgeom is undefined; the call faults or stores what it read
ComputeAABBNull(o) ==
  /\ Running /\ objs[o].alive /\ objs[o].cgeom = Null
  /\ \/ /\ last' = Op("computeAABB", o, Null, NoTf, FALSE, <<>>, "fault")
        /\ UNCHANGED objs
     \/ /\ \E junk \in {DefaultAABB, [min_ |-> Vec3Constant(0), max_ |-> Vec3Constant(0)]} :
             objs' = [objs EXCEPT ![o].aabb = junk]
        /\ last' = Op("computeAABB", o, Null, NoTf, FALSE, <<>>, "ok")
  /\ UNCHANGED <<geoms, geomVars, distVars>>

\* CollisionObject::setRotation
SetRotationMutSync(o, R) ==
  /\ Running /\ objs[o].alive
  /\ objs' = [objs EXCEPT ![o].t.R = R,
                          ![o].aabb = IF objs[o].cgeom = Null THEN @
                                      ELSE computeAABB([objs[o] EXCEPT !.t.R = R], geoms)]
  /\ last' = Op("setRotation", o, Null, [R |-> R, T |-> NoArg], FALSE, <<>>, "ok")
  /\ UNCHANGED <<geoms, geomVars, distVars>>
SetRotation(o, R) ==
  /\ Running /\ objs[o].alive
  /\ objs' = [objs EXCEPT ![o].t.R = R]
  /\ last' = Op("setRotation", o, Null, [R |-> R, T |-> NoArg], FALSE, <<>>, "ok")
  /\ UNCHANGED <<geoms, geomVars, distVars>>

\* CollisionObject::setTranslation
SetTranslation(o, T) ==
  /\ Running /\ objs[o].alive
  /\ objs' = [objs EXCEPT ![o].t.T = T]
  /\ last' = Op("setTranslation", o, Null, [R |-> NoArg, T |-> T], FALSE, <<>>, "ok")
  /\ UNCHANGED <<geoms, geomVars, distVars>>

\* CollisionObject::setTransform(R, T)
SetTransformRT(o, R, T) ==
  /\ Running /\ objs[o].alive
  /\ objs' = [objs EXCEPT ![o].t = [R |-> R, T |-> T]]
  /\ last' = Op("setTransform", o, Null, [R |-> R, T |-> T], FALSE, <<>>, "ok")
  /\ UNCHANGED <<geoms, geomVars, distVars>>

\* CollisionObject::setTransform(tf)
SetTransform(o, tf) ==
  /\ Running /\ objs[o].alive
  /\ objs' = [objs EXCEPT ![o].t = tf]
  /\ last' = Op("setTransform", o, Null, tf, FALSE, <<>>, "ok")
  /\ UNCHANGED <<geoms, geomVars, distVars>>

\* CollisionObject::setIdentityTransform
SetIdentityTransform(o) ==
  /\ Running /\ objs[o].alive
  /\ objs' = [objs EXCEPT ![o].t = DefaultTransform]
  /\ last' = Op("setIdentityTransform", o, Null, DefaultTransform, FALSE, <<>>, "ok")
  /\ UNCHANGED <<geoms, geomVars, distVars>>

\* CollisionObject::setCollisionGeometry
SetCollisionGeometryMutAlways(o, g, flag) ==
  /\ Running /\ objs[o].alive
  /\ LET r == init([objs[o] EXCEPT !.cgeom = g], geoms, flag)
     IN /\ objs' = [objs EXCEPT ![o] = r.obj]
        /\ geoms' = r.geoms
        /\ last' = Op("setCollisionGeometry", o, g, NoTf, flag, r.calls, "ok")
  /\ UNCHANGED <<geomVars, distVars>>
SetCollisionGeometry(o, g, flag) ==
  /\ Running /\ objs[o].alive
  /\ IF g # objs[o].cgeom
     THEN LET r == init([objs[o] EXCEPT !.cgeom = g], geoms, flag)
          IN /\ objs' = [objs EXCEPT ![o] = r.obj]
             /\ geoms' = r.geoms
             /\ last' = Op("setCollisionGeometry", o, g, NoTf, flag, r.calls, "ok")
     ELSE /\ last' = Op("setCollisionGeometry", o, g, NoTf, flag, <<>>, "ok")
          /\ UNCHANGED <<objs, geoms>>
  /\ UNCHANGED <<geomVars, distVars>>

\* the caller runs computeLocalAABB() on a geometry it holds
GeomComputeLocalAABB(g) ==
  /\ Running
  /\ geoms' = [geoms EXCEPT ![g] = computeLocalAABB(geoms[g])]
  /\ last' = Op("computeLocalAABB", 0, g, NoTf, FALSE, <<>>, "ok")
  /\ UNCHANGED <<objs, geomVars, distVars>>

Bool == {TRUE, FALSE}

\* the state right after the two geometries are default-constructed
InitGeoms ==
  \E h \in Handles : geoms = [g \in GeomIds |-> NewGeometry(g, h)]

\* no copy made, no query asked, no distance computed yet
NoCopy == [from |-> Null, val |-> NewGeometry(Null, "h0")]
NoQuery == [geom |-> Null, cost_density |-> 0, threshold_occupied |-> 0,
            threshold_free |-> 0, occupied |-> FALSE, free |-> FALSE]
NoFacade == [built |-> FALSE, o1 |-> Null, o2 |-> Null, func |-> <<>>,
             swap_geoms |-> FALSE]
NoCall == [op |-> "none", o1 |-> Null, tf1 |-> DefaultTransform, o2 |-> Null,
           tf2 |-> DefaultTransform, req_in |-> NewRequest, events |-> <<>>,
           ret |-> 0, outcome |-> "ok"]

InitIdle ==
  /\ gcopy = NoCopy
  /\ query = NoQuery
  /\ facade = NoFacade
  /\ request = NewRequest
  /\ result = NewResult
  /\ dcall = NoCall

Init ==
  /\ InitGeoms
  /\ objs = [o \in ObjIds |-> NoObject]
  /\ last = NoOp
  /\ InitIdle

\* the operations of the objects in O, on geometries in G, with rotations
\* in Rs and translations in Ts
ObjNext(O, G, Rs, Ts) ==
  \/ \E o \in O, g \in G, flag \in Bool : Construct1(o, g, flag)
  \/ \E o \in O, g \in G, tf \in [R : Rs, T : Ts], flag \in Bool :
        Construct2(o, g, tf, flag)
  \/ \E o \in O, g \in G, R \in Rs, T \in Ts, flag \in Bool :
        Construct3(o, g, R, T, flag)
  \/ \E o \in O : ComputeAABB(o)
  \/ \E o \in O, R \in Rs : SetRotation(o, R)
  \/ \E o \in O, T \in Ts : SetTranslation(o, T)
  \/ \E o \in O, R \in Rs, T \in Ts : SetTransformRT(o, R, T)
  \/ \E o \in O, tf \in [R : Rs, T : Ts] : SetTransform(o, tf)
  \/ \E o \in O : SetIdentityTransform(o)
  \/ \E o \in O, g \in G, flag \in Bool : SetCollisionGeometry(o, g, flag)
  \/ \E g \in G \ {Null} : GeomComputeLocalAABB(g)

\* one object, any geometry or none
Next ==
  \/ ObjNext({1}, GeomIds \cup {Null}, Rotations, Translations)
  \/ ComputeAABBNull(1)

Spec == Init /\ [][Next]_vars

\* two objects sharing one geometry
SharedNext == ObjNext(ObjIds, {1}, {Identity, RotZ90}, Translations)

SpecShared == Init /\ [][SharedNext]_vars

(***************************************************************************)
(* Operations on a CollisionGeometry.                                      *)
(***************************************************************************)
Densities == 0..MaxDensity

\* the caller writes the public field cost_density
SetCostDensity(g, v) ==
  /\ geoms' = [geoms EXCEPT ![g].cost_density = v]
  /\ UNCHANGED <<objs, last, geomVars, distVars>>

\* the caller writes the public field threshold_occupied
SetThresholdOccupied(g, v) ==
  /\ geoms' = [geoms EXCEPT ![g].threshold_occupied = v]
  /\ UNCHANGED <<objs, last, geomVars, distVars>>

\* the caller writes the public field threshold_free
SetThresholdFree(g, v) ==
  /\ geoms' = [geoms EXCEPT ![g].threshold_free = v]
  /\ UNCHANGED <<objs, last, geomVars, distVars>>

\* CollisionGeometry::setUserData
SetUserData(g, h) ==
  /\ geoms' = [geoms EXCEPT ![g].user_data = h]
  /\ UNCHANGED <<objs, last, geomVars, distVars>>

\* the copy constructor, as clone() uses it; the copy's user_data is
\* uninitialised
Copy(g) ==
  /\ \E h \in Handles : gcopy' = [from |-> g, val |-> CopyGeometry(geoms[g], h)]
  /\ UNCHANGED <<objVars, query, distVars>>

\* the caller asks isOccupied() and isFree()
Query(g) ==
  /\ query' = [geom |-> g,
               cost_density |-> geoms[g].cost_density,
               threshold_occupied |-> geoms[g].threshold_occupied,
               threshold_free |-> geoms[g].threshold_free,
               occupied |-> isOccupied(geoms[g]),
               free |-> isFree(geoms[g])]
  /\ UNCHANGED <<objVars, gcopy, distVars>>

\* one geometry: its bound, its handle, its density, and copies of it
CopyNext ==
  \/ \E v \in Densities : SetCostDensity(1, v)
  \/ \E h \in Handles : SetUserData(1, h)
  \/ GeomComputeLocalAABB(1)
  \/ Copy(1)

SpecCopy == Init /\ [][CopyNext]_vars

\* one geometry: its density and thresholds, and the occupancy queries
OccupancyNext ==
  \/ \E v \in Densities : SetCostDensity(1, v)
  \/ \E v \in Densities : SetThresholdOccupied(1, v)
  \/ \E v \in Densities : SetThresholdFree(1, v)
  \/ Query(1)

SpecOccupancy == Init /\ [][OccupancyNext]_vars

(***************************************************************************)
(* The distance queries.                                                   *)
(***************************************************************************)
Guesses == (-MaxGuess)..MaxGuess

\* the transforms the callers pass to the geometry overloads and the facade
DistTransforms == {[R |-> Identity, T |-> T] : T \in Translations}

Call(name, o1, tf1, o2, tf2, req, c, events) ==
  [op |-> name, o1 |-> o1, tf1 |-> tf1, o2 |-> o2, tf2 |-> tf2, req_in |-> req,
   events |-> events, ret |-> c.ret, outcome |-> c.outcome]

\* the caller prepares a request
SetRequest(enable, guess) ==
  /\ request' = [enable_cached_gjk_guess |-> enable, cached_gjk_guess |-> guess]
  /\ dcall' = NoCall
  /\ UNCHANGED <<objVars, geomVars, facade, result>>

\* distance(o1, o2, const request, result) on two objects
DistanceObjects(a, b) ==
  /\ \E c \in {distance(objs[a].cgeom, objs[a].t, objs[b].cgeom, objs[b].t, request)} :
        /\ result' = c.result
        /\ dcall' = Call("distance(objects)", objs[a].cgeom, objs[a].t,
                         objs[b].cgeom, objs[b].t, request, c, c.events)
  /\ UNCHANGED <<objVars, geomVars, facade, request>>

\* distance(o1, tf1, o2, tf2, const request, result)
DistanceGeometries(o1, tf1, o2, tf2) ==
  /\ \E c \in {distance(o1, tf1, o2, tf2, request)} :
        /\ result' = c.result
        /\ dcall' = Call("distance(geometries)", o1, tf1, o2, tf2, request, c,
                         c.events)
  /\ UNCHANGED <<objVars, geomVars, facade, request>>

\* distance(o1, o2, request, result) with a mutable request
DistanceObjectsUpdate(a, b) ==
  /\ \E c \in {distance(objs[a].cgeom, objs[a].t, objs[b].cgeom, objs[b].t, request)} :
        /\ result' = c.result
        /\ request' = updateGuess(request, c.result)
        /\ dcall' = Call("distance(objects, update)", objs[a].cgeom, objs[a].t,
                         objs[b].cgeom, objs[b].t, request, c,
                         c.events \o << <<"updateGuess", c.result.cached_gjk_guess>> >>)
  /\ UNCHANGED <<objVars, geomVars, facade>>

\* distance(o1, tf1, o2, tf2, request, result) with a mutable request
DistanceGeometriesUpdateMutEarly(o1, tf1, o2, tf2) ==
  /\ \E req \in {updateGuess(request, result)} :
     \E c \in {distance(o1, tf1, o2, tf2, req)} :
        /\ result' = c.result
        /\ request' = req
        /\ dcall' = Call("distance(geometries, update)", o1, tf1, o2, tf2,
                         request, c,
                         << <<"updateGuess", result.cached_gjk_guess>> >> \o c.events)
  /\ UNCHANGED <<objVars, geomVars, facade>>
DistanceGeometriesUpdate(o1, tf1, o2, tf2) ==
  /\ \E c \in {distance(o1, tf1, o2, tf2, request)} :
        /\ result' = c.result
        /\ request' = updateGuess(request, c.result)
        /\ dcall' = Call("distance(geometries, update)", o1, tf1, o2, tf2,
                         request, c,
                         c.events \o << <<"updateGuess", c.result.cached_gjk_guess>> >>)
  /\ UNCHANGED <<objVars, geomVars, facade>>

\* ComputeDistance(o1, o2): resolves the routine and the swap flag once
ComputeDistanceNew(o1, o2) ==
  /\ \E r \in {Resolve(getNodeType(o1), getNodeType(o2))} :
        facade' = [built |-> TRUE, o1 |-> o1, o2 |-> o2, func |-> r.func,
                   swap_geoms |-> r.swap_geoms]
  /\ dcall' = NoCall
  /\ UNCHANGED <<objVars, geomVars, request, result>>

\* ComputeDistance::operator()(tf1, tf2, const request, result)
FacadeCall(tf1, tf2) ==
  /\ facade.built
  /\ \E c \in {run(facade, tf1, tf2, request)} :
        /\ result' = c.result
        /\ dcall' = Call("operator()", facade.o1, tf1, facade.o2, tf2, request, c,
                         c.events)
  /\ UNCHANGED <<objVars, geomVars, facade, request>>

\* ComputeDistance::operator()(tf1, tf2, request, result) with a mutable
\* request
FacadeCallUpdate(tf1, tf2) ==
  /\ facade.built
  /\ \E c \in {run(facade, tf1, tf2, request)} :
        /\ result' = c.result
        /\ request' = updateGuess(request, c.result)
        /\ dcall' = Call("operator()(update)", facade.o1, tf1, facade.o2, tf2,
                         request, c,
                         c.events \o << <<"updateGuess", c.result.cached_gjk_guess>> >>)
  /\ UNCHANGED <<objVars, geomVars, facade>>

\* two objects built on the two geometries, ready for queries
InitDist ==
  /\ LET gs == [g \in GeomIds |-> NewGeometry(g, "h0")]
         r1 == init([alive |-> TRUE, cgeom |-> 1, t |-> DefaultTransform,
                     aabb |-> DefaultAABB], gs, TRUE)
         r2 == init([alive |-> TRUE, cgeom |-> 2,
                     t |-> [R |-> RotZ90, T |-> <<MaxCoord, -MaxCoord, 2 * MaxCoord>>],
                     aabb |-> DefaultAABB], r1.geoms, TRUE)
     IN /\ geoms = r2.geoms
        /\ objs = [o \in ObjIds |-> IF o = 1 THEN r1.obj ELSE r2.obj]
  /\ last = NoOp
  /\ InitIdle

DistNext ==
  \/ \E enable \in Bool, guess \in Guesses : SetRequest(enable, guess)
  \/ \E a \in ObjIds, b \in ObjIds : DistanceObjects(a, b)
  \/ \E o1 \in GeomIds, o2 \in GeomIds, tf1 \in DistTransforms, tf2 \in DistTransforms :
        DistanceGeometries(o1, tf1, o2, tf2)
  \/ \E a \in ObjIds, b \in ObjIds : DistanceObjectsUpdate(a, b)
  \/ \E o1 \in GeomIds, o2 \in GeomIds, tf1 \in DistTransforms, tf2 \in DistTransforms :
        DistanceGeometriesUpdate(o1, tf1, o2, tf2)
  \/ \E o1 \in GeomIds, o2 \in GeomIds : ComputeDistanceNew(o1, o2)
  \/ \E tf1 \in DistTransforms, tf2 \in DistTransforms : FacadeCall(tf1, tf2)
  \/ \E tf1 \in DistTransforms, tf2 \in DistTransforms : FacadeCallUpdate(tf1, tf2)

SpecDist == InitDist /\ [][DistNext]_vars

(***************************************************************************)
(* Properties of CollisionObject.                                          *)
(***************************************************************************)
TransformSetters ==
  {"setRotation", "setTranslation", "setTransform", "setIdentityTransform"}

ObjectOps ==
  TransformSetters \cup {"CollisionObject", "computeAABB", "setCollisionGeometry"}

\* the transform t after a setter that was given the arguments arg
Merged(t, arg) ==
  [R |-> IF arg.R = NoArg THEN t.R ELSE arg.R,
   T |-> IF arg.T = NoArg THEN t.T ELSE arg.T]

\* the world bound is out of date with the transform and the geometry
Stale(o) ==
  /\ objs[o].alive /\ objs[o].cgeom # Null
  /\ objs[o].aabb # computeAABB(objs[o], geoms)

\* C1: a transform setter on an object with a geometry leaves getAABB() as
\* it was and makes getTransform() the new transform; the cached bound of
\* an object changes only in a step of its constructor, of its computeAABB()
\* or of a setCollisionGeometry that replaces its geometry.
C1_SettersKeepBound ==
  [][/\ (last'.op \in TransformSetters /\ objs[last'.obj].cgeom # Null) =>
          /\ objs'[last'.obj].aabb = objs[last'.obj].aabb
          /\ objs'[last'.obj].t = Merged(objs[last'.obj].t, last'.tf)
     /\ \A o \in ObjIds :
          objs'[o].aabb # objs[o].aabb =>
            /\ last'.obj = o
            /\ last'.op \in {"CollisionObject", "computeAABB", "setCollisionGeometry"}
            /\ last'.op = "setCollisionGeometry" => objs'[o].cgeom # objs[o].cgeom
    ]_vars

\* C1 witness: a setter has just run and the bound it left is stale
C1_Witness ==
  /\ last.op \in TransformSetters
  /\ Stale(last.obj)
  /\ objs[last.obj].t = Merged(objs[last.obj].t, last.tf)

\* the geometry's local bound has been computed (it is bounded)
Bounded(g) == geoms[g].aabb_radius >= 0

\* the operation that ran last ended in computeAABB()
JustComputed ==
  /\ last.outcome = "ok" /\ last.obj \in ObjIds
  /\ objs[last.obj].cgeom # Null
  /\ \/ last.op = "computeAABB"
     \/ (last.calls # <<>> /\ last.calls[Len(last.calls)] = "computeAABB")

\* [lo + t, hi + t]
BoxBound(g, t) ==
  LET lo == geoms[g].aabb_local.min_
      hi == geoms[g].aabb_local.max_
  IN [min_ |-> <<lo[1] + t[1], lo[2] + t[2], lo[3] + t[3]>>,
      max_ |-> <<hi[1] + t[1], hi[2] + t[2], hi[3] + t[3]>>]

\* [R*c + t - (r,r,r), R*c + t + (r,r,r)]
SphereBound(g, R, t) ==
  LET c == geoms[g].aabb_center
      r == geoms[g].aabb_radius
      Rc == [i \in 1..3 |-> ((R[i][1] * c[1]) \div One) + ((R[i][2] * c[2]) \div One)
                              + ((R[i][3] * c[3]) \div One)]
  IN [min_ |-> <<Rc[1] + t[1] - r, Rc[2] + t[2] - r, Rc[3] + t[3] - r>>,
      max_ |-> <<Rc[1] + t[1] + r, Rc[2] + t[2] + r, Rc[3] + t[3] + r>>]

\* C2 as stated: right after computeAABB() on a bounded geometry the cached
\* bound is [lo + t, hi + t] if R is the identity matrix and the box of the
\* transformed local sphere otherwise.
C2_ExactIdentity ==
  (JustComputed /\ Bounded(objs[last.obj].cgeom)) =>
    LET o == objs[last.obj] IN
      o.aabb = IF o.t.R = Identity
               THEN BoxBound(o.cgeom, o.t.T)
               ELSE SphereBound(o.cgeom, o.t.R, o.t.T)

\* C2 amended: right after computeAABB() on a bounded geometry the cached
\* bound is [lo + t, hi + t] if R.isIdentity() holds, which is so for every
\* R within the default precision of the identity, and the box of the
\* transformed local sphere otherwise.
C2_WorldBound ==
  (JustComputed /\ Bounded(objs[last.obj].cgeom)) =>
    LET o == objs[last.obj] IN
      o.aabb = IF isIdentity(o.t.R)
               THEN BoxBound(o.cgeom, o.t.T)
               ELSE SphereBound(o.cgeom, o.t.R, o.t.T)

\* C2 witness: computeAABB() has run with a rotation that is not the
\* identity matrix and passes isIdentity(), on a geometry whose two local
\* bounds give different world bounds
C2_Witness ==
  /\ JustComputed /\ Bounded(objs[last.obj].cgeom)
  /\ objs[last.obj].t.R = NearIdentity
  /\ objs[last.obj].t.T # Vec3Constant(0)
  /\ BoxBound(objs[last.obj].cgeom, objs[last.obj].t.T)
       # SphereBound(objs[last.obj].cgeom, objs[last.obj].t.R, objs[last.obj].t.T)

\* C3: setCollisionGeometry with the geometry the object already holds makes
\* no call and leaves the object (bound, transform, geometry reference) and
\* every geometry as they were, for either flag.
C3_SameGeometryNoOp ==
  [][(last'.op = "setCollisionGeometry" /\ last'.geom = objs[last'.obj].cgeom) =>
        /\ last'.calls = <<>>
        /\ objs' = objs
        /\ geoms' = geoms
    ]_vars

\* C3 witness: setCollisionGeometry(same) has run on an object whose bound
\* is stale, and the bound is still stale
C3_Witness ==
  /\ last.op = "setCollisionGeometry"
  /\ last.geom = objs[last.obj].cgeom
  /\ last.calls = <<>>
  /\ Stale(last.obj)

\* C4: setCollisionGeometry with another geometry g stores g, calls
\* g.computeLocalAABB() once iff the flag is set, then computeAABB(), so the
\* cached bound is the one derived from the current transform and g.
C4_ReplaceRecomputes ==
  [][(/\ last'.op = "setCollisionGeometry"
      /\ last'.geom # objs[last'.obj].cgeom
      /\ last'.geom # Null) =>
        LET o == last'.obj
            g == last'.geom
        IN /\ objs'[o].cgeom = g
           /\ objs'[o].t = objs[o].t
           /\ last'.calls = IF last'.flag
                            THEN <<"computeLocalAABB", "computeAABB">>
                            ELSE <<"computeAABB">>
           /\ geoms' = IF last'.flag
                       THEN [geoms EXCEPT ![g] = computeLocalAABB(geoms[g])]
                       ELSE geoms
           /\ objs'[o].aabb = computeAABB(objs'[o], geoms')
    ]_vars

\* C4 witness: a replacing setCollisionGeometry with the flag unset has run
\* and the bound is up to date
C4_Witness ==
  /\ last.op = "setCollisionGeometry"
  /\ last.geom # Null /\ ~last.flag
  /\ last.calls = <<"computeAABB">>
  /\ objs[last.obj].cgeom = last.geom
  /\ objs[last.obj].t.R = RotZ90
  /\ ~Stale(last.obj)

\* C7 as stated: a constructor or setCollisionGeometry given a null
\* geometry ends in an error.
C7_NullFailsFast ==
  (last.op \in {"CollisionObject", "setCollisionGeometry"} /\ last.geom = Null)
    => last.outcome # "ok"

C8_CopyEqualsOriginal ==
  [][gcopy' # gcopy =>
        /\ gcopy'.val.aabb_center = geoms[gcopy'.from].aabb_center
        /\ gcopy'.val.aabb_radius = geoms[gcopy'.from].aabb_radius
        /\ gcopy'.val.aabb_local = geoms[gcopy'.from].aabb_local
        /\ GeomEq(gcopy'.val, geoms[gcopy'.from])
    ]_vars

\* C9: isOccupied() is true iff cost_density >= threshold_occupied and
\* isFree() iff cost_density <= threshold_free, whatever the order of the
\* thresholds; a default-constructed geometry is occupied and not free.
C9_Thresholds ==
  /\ query.geom # Null =>
       /\ query.occupied <=> ~(query.cost_density < query.threshold_occupied)
       /\ query.free <=> ~(query.cost_density > query.threshold_free)
  /\ (query.geom # Null /\ query.cost_density = 1 /\ query.threshold_occupied = 1
        /\ query.threshold_free = 0) => (query.occupied /\ ~query.free)

\* C9 witness: a query answered both occupied and free, on the boundary of
\* the occupied threshold, with threshold_free >= threshold_occupied
C9_Witness ==
  /\ query.geom # Null
  /\ query.occupied /\ query.free
  /\ query.cost_density = query.threshold_occupied
  /\ query.threshold_free >= query.threshold_occupied

(***************************************************************************)
(* Properties of the distance queries.                                     *)
(***************************************************************************)
UpdateOps ==
  {"distance(objects, update)", "distance(geometries, update)", "operator()(update)"}

ConstOps == {"distance(objects)", "distance(geometries)", "operator()"}

\* what the const-request overload of the call recorded in dcall computes
ConstOverload ==
  IF dcall.op \in {"operator()", "operator()(update)"}
  THEN run(facade, dcall.tf1, dcall.tf2, dcall.req_in)
  ELSE distance(dcall.o1, dcall.tf1, dcall.o2, dcall.tf2, dcall.req_in)

\* C5: a mutable-request overload runs the narrow phase once, with the
\* guess the request had on entry, then updateGuess once with the result
\* that computation filled, and returns the const overload's scalar; the
\* const overloads leave the request alone.
C5_UpdateAfterCompute ==
  /\ dcall.op \in UpdateOps =>
       /\ dcall.events = << <<"narrow", dcall.req_in.cached_gjk_guess>>,
                            <<"updateGuess", result.cached_gjk_guess>> >>
       /\ result = ConstOverload.result
       /\ dcall.ret = ConstOverload.ret
       /\ request = updateGuess(dcall.req_in, result)
  /\ dcall.op \in ConstOps =>
       /\ dcall.events = << <<"narrow", dcall.req_in.cached_gjk_guess>> >>
       /\ request = dcall.req_in

\* C5 witness: a mutable-request overload has run and changed the guess
C5_Witness ==
  /\ dcall.op = "distance(geometries, update)"
  /\ request.cached_gjk_guess # dcall.req_in.cached_gjk_guess
  /\ request.cached_gjk_guess = result.cached_gjk_guess

\* C6: a call of the facade returns the distance that the stateless
\* distance function returns for the facade's geometries and the same
\* transforms and request.
C6_FacadeMatchesStateless ==
  (dcall.op \in {"operator()", "operator()(update)"}) =>
    dcall.ret = distance(facade.o1, dcall.tf1, facade.o2, dcall.tf2, dcall.req_in).ret

\* C6 witness: the facade was resolved with the swap flag and returned a
\* positive distance
C6_Witness ==
  /\ dcall.op = "operator()"
  /\ facade.swap_geoms
  /\ dcall.ret > 0

====
